---- MODULE Spec2Model ----
(***************************************************************************)
(* A model of the three propositional reasoning engines of the repository: *)
(*   - PropDeduction.py        : negate, resolve, resolution_entails       *)
(*   - PropInductionwCostMin.py: HornClause, abduce, abduce_min_cost       *)
(*     (PropHornClauseAbduction.py holds the same abduce twice more)       *)
(*   - PropInduction.py        : foil_gain, learn_rules                    *)
(* Each engine has its own specification; the variables of the engines a   *)
(* specification does not run stay at their idle values.                   *)
(***************************************************************************)
EXTENDS Integers, Sequences, FiniteSets

VARIABLES
    \* ---- resolve (PropDeduction.py) ----
    ci, cj,            \* the two clauses handed to resolve
    resolvents,        \* what resolve returned
    rpc,               \* "idle" | "call" | "resolved"
    \* ---- resolution_entails (PropDeduction.py) ----
    kb, query,         \* the arguments
    clauses,           \* the working clause set
    new,               \* the accumulated resolvents
    epc,               \* "idle" | "loop" | "True" | "False"
    \* ---- abduce, abduce_min_cost (PropInductionwCostMin.py) ----
    horn_kb,           \* the list of HornClause objects the caller has built
    goal, abducibles,  \* the arguments of the call made
    cost,              \* the cost map of the call made
    all_expls,         \* what abduce returned
    best,              \* what abduce_min_cost returned
    apc,               \* "idle" | "build" | "running" | "abduced" | "costed"
    stack,             \* the frames of the calls of abduce in progress
    \* ---- learn_rules (PropInduction.py) ----
    pos, neg,          \* the lists of positive and negative examples
    background,        \* the set of background facts
    predicates,        \* the set of candidate predicates
    rules,             \* the rules learned so far
    pos_examples,      \* the positives still to cover
    head_pred, body,   \* the rule under construction
    pos_cover,         \* the positives the rule under construction covers
    neg_cover,         \* the negatives the rule under construction covers
    fpc,               \* "idle" | "outer" | "inner" | "done" | "error"
    runs,              \* how many times learn_rules was called on the inputs
    first_rules        \* what the first of the calls returned

resolveVars == <<ci, cj, resolvents, rpc>>
entailVars  == <<kb, query, clauses, new, epc>>
abduceVars  == <<horn_kb, goal, abducibles, cost, all_expls, best, apc,
                 stack>>
learnVars   == <<pos, neg, background, predicates, rules, pos_examples,
                 head_pred, body, pos_cover, neg_cover, fpc, runs,
                 first_rules>>
vars == <<resolveVars, entailVars, abduceVars, learnVars>>

----------------------------------------------------------------------------
(* Bounds of the model *)

\* largest number of clauses in a knowledge base handed to resolution_entails
MaxKb == 3

\* largest number of atom occurrences (heads and body atoms) in a Horn
\* knowledge base
MaxKbSize == 4

\* largest cost of an abducible in a cost map
MaxCost == 1

\* largest number of examples, positive and negative together, handed to
\* learn_rules
MaxExamples == 3

----------------------------------------------------------------------------
(* PropDeduction.py : literals and clauses *)

\* A literal is a Python str; here the sequence of its characters.
Atoms == {"A", "B"}
Literals == {<<a>> : a \in Atoms} \cup {<<"~", a>> : a \in Atoms}
Clauses == SUBSET Literals

\* literal[1:] if literal.startswith('~') else '~' + literal
negate(literal) ==
    IF Len(literal) > 0 /\ literal[1] = "~" THEN Tail(literal)
                                              ELSE <<"~">> \o literal

\* resolve with the removal of the complement forgotten
resolve_keeps_complement(c1, c2) ==
    { (c1 \cup c2) \ {l} : l \in {x \in c1 : negate(x) \in c2} }

\* The resolvents of resolve(ci, cj): one per literal l of ci whose negation
\* is in cj.  The code returns them as a list in the iteration order of the
\* frozenset ci; only membership in that list is ever used, so the model
\* keeps the set of its entries.
resolve(c1, c2) ==
    { (c1 \cup c2) \ {l, negate(l)} : l \in {x \in c1 : negate(x) \in c2} }

IdleResolve == /\ ci = {} /\ cj = {} /\ resolvents = {} /\ rpc = "idle"
IdleEntail  == /\ kb = {} /\ query = <<>> /\ clauses = {} /\ new = {}
               /\ epc = "idle"
IdleAbduce  == /\ horn_kb = <<>> /\ goal = "" /\ abducibles = {}
               /\ cost = <<>> /\ all_expls = <<>> /\ best = <<>>
               /\ apc = "idle" /\ stack = <<>>
IdleLearn   == /\ pos = <<>> /\ neg = <<>> /\ background = {}
               /\ predicates = {} /\ rules = <<>> /\ pos_examples = <<>>
               /\ head_pred = "" /\ body = <<>> /\ pos_cover = <<>>
               /\ neg_cover = <<>> /\ fpc = "idle" /\ runs = 0
               /\ first_rules = <<>>

----------------------------------------------------------------------------
(* Specification of resolve on its own *)

InitResolve ==
    /\ ci \in Clauses
    /\ cj \in Clauses
    /\ resolvents = {}
    /\ rpc = "call"
    /\ IdleEntail
    /\ IdleAbduce
    /\ IdleLearn

Resolve ==
    /\ rpc = "call"
    /\ resolvents' = resolve(ci, cj)
    /\ rpc' = "resolved"
    /\ UNCHANGED <<ci, cj, entailVars, abduceVars, learnVars>>

NextResolve == Resolve

SpecResolve == InitResolve /\ [][NextResolve]_vars

----------------------------------------------------------------------------
(* Specification of resolution_entails *)

KnowledgeBases == {k \in SUBSET Clauses : Cardinality(k) <= MaxKb}

\* lines 36-40: clauses = set(kb) | {frozenset({negate(query)})}; new = set()
InitEntail ==
    /\ kb \in KnowledgeBases
    /\ query \in Literals
    /\ clauses = kb \cup {{negate(query)}}
    /\ new = {}
    /\ epc = "loop"
    /\ IdleResolve
    /\ IdleAbduce
    /\ IdleLearn

\* pairs = [(ci, cj) for ci in clauses for cj in clauses if ci != cj]
pairs == {p \in clauses \X clauses : p[1] # p[2]}

\* every resolvent the for loops of one round see
RoundResolvents == UNION {resolve(p[1], p[2]) : p \in pairs}

\* a round whose merge replaces the working set instead of extending it
RoundMergeReplaces ==
    /\ epc = "loop"
    /\ {} \notin RoundResolvents
    /\ ~((new \cup RoundResolvents) \subseteq clauses)
    /\ new' = new \cup RoundResolvents
    /\ clauses' = new'
    /\ UNCHANGED <<kb, query, epc, resolveVars, abduceVars, learnVars>>

\* a round in which some resolvent is empty: return True (lines 47-48)
RoundEmptyClause ==
    /\ epc = "loop"
    /\ {} \in RoundResolvents
    /\ epc' = "True"
    /\ UNCHANGED <<kb, query, clauses, new, resolveVars, abduceVars, learnVars>>

\* a round that adds nothing to the working set: return False (lines 52-53)
RoundSaturated ==
    /\ epc = "loop"
    /\ {} \notin RoundResolvents
    /\ (new \cup RoundResolvents) \subseteq clauses
    /\ new' = new \cup RoundResolvents
    /\ epc' = "False"
    /\ UNCHANGED <<kb, query, clauses, resolveVars, abduceVars, learnVars>>

\* a round that found new clauses: clauses |= new, and loop (line 56)
RoundMerge ==
    /\ epc = "loop"
    /\ {} \notin RoundResolvents
    /\ ~((new \cup RoundResolvents) \subseteq clauses)
    /\ new' = new \cup RoundResolvents
    /\ clauses' = clauses \cup new'
    /\ UNCHANGED <<kb, query, epc, resolveVars, abduceVars, learnVars>>

NextEntail == RoundEmptyClause \/ RoundSaturated \/ RoundMerge

SpecEntail == InitEntail /\ [][NextEntail]_vars

\* the while loop keeps running until it returns
SpecEntailFair == SpecEntail /\ WF_vars(NextEntail)

----------------------------------------------------------------------------
(* Propositional semantics, for the entailment contract *)

\* a truth assignment is the set of atoms it makes true
Assignments == SUBSET Atoms

LitTrue(v, l) == IF l[1] = "~" THEN l[2] \notin v ELSE l[1] \in v

\* a clause is satisfied when one of its literals is true; the empty clause
\* is satisfied by no assignment
Satisfies(v, k) == \A c \in k : \E l \in c : LitTrue(v, l)

Entails(k, q) == \A v \in Assignments : Satisfies(v, k) => LitTrue(v, q)

HasComplementaryPair(c) == \E l \in c : negate(l) \in c

\* the literals occurring in kb and in the negated query
Vocabulary == UNION (kb \cup {{negate(query)}})

----------------------------------------------------------------------------
(* Claims about the resolution engine *)

\* C1: resolution_entails(kb, query) returns True if and only if kb entails
\* query, for every finite kb (the empty kb and a kb holding the empty
\* clause included) and every literal query.
EntailmentContract ==
    epc \in {"True", "False"} => ((epc = "True") <=> Entails(kb, query))

\* C6 as stated: every resolvent r of resolve(ci, cj) holds no literal
\* together with its complement, and is (ci \cup cj) minus exactly one
\* complementary pair {l, negate(l)} with l in ci and negate(l) in cj.
ResolventTautologyFree ==
    rpc = "resolved" =>
        \A r \in resolvents :
            /\ ~HasComplementaryPair(r)
            /\ \E l \in ci : /\ negate(l) \in cj
                             /\ r = (ci \cup cj) \ {l, negate(l)}

\* C6 as amended: every resolvent r of resolve(ci, cj) is (ci \cup cj) minus
\* exactly one complementary pair {l, negate(l)} with l in ci and negate(l)
\* in cj, so it holds neither l nor negate(l); it holds some other literal
\* together with its complement only if ci \cup cj already does.
ResolventRemovesOnePair ==
    rpc = "resolved" =>
        \A r \in resolvents :
            \E l \in ci :
                /\ negate(l) \in cj
                /\ r = (ci \cup cj) \ {l, negate(l)}
                /\ l \notin r /\ negate(l) \notin r
                /\ HasComplementaryPair(r) =>
                       \E m \in (ci \cup cj) \ {l, negate(l)} :
                           negate(m) \in (ci \cup cj) \ {l, negate(l)}

\* resolve has returned a resolvent that holds a literal and its complement
ResolventWithComplements ==
    /\ rpc = "resolved"
    /\ \E r \in resolvents : HasComplementaryPair(r)

\* C10: resolution_entails terminates: the working clause set only grows,
\* every clause in it is made of literals of kb and the negated query, and
\* the loop ends, with True after an empty resolvent or with False once the
\* accumulated resolvents are all in the working set.
ResolutionTerminates ==
    /\ [][clauses \subseteq clauses']_vars
    /\ [](\A c \in clauses : c \subseteq Vocabulary)
    /\ [](epc = "True" => {} \in RoundResolvents)
    /\ [](epc = "False" => new \subseteq clauses)
    /\ <>(epc \in {"True", "False"})

\* a run that returned False after the working set had grown
SaturatedAfterGrowth ==
    /\ epc = "False"
    /\ clauses # kb \cup {{negate(query)}}
    /\ new # {}

----------------------------------------------------------------------------
(* PropInductionwCostMin.py : Horn clauses and abduction *)

HornAtoms == {"r", "s", "t"}

\* HornClause.__init__: a head and a list of body atoms
HornClause(h, b) == [head |-> h, body |-> b]

\* the number of atom occurrences in a list of Horn clauses
RECURSIVE KbSize(_)
KbSize(k) == IF k = <<>> THEN 0
             ELSE 1 + Len(Head(k).body) + KbSize(Tail(k))

Range(seq) == {seq[i] : i \in DOMAIN seq}

RECURSIVE Flatten(_)
Flatten(seqs) == IF seqs = <<>> THEN <<>>
                 ELSE Head(seqs) \o Flatten(Tail(seqs))

\* product that keeps only the first explanation of every body atom
RECURSIVE merged_first_only(_)
merged_first_only(sub_expls) ==
    IF sub_expls = <<>> THEN << {} >>
    ELSE LET rest == merged_first_only(Tail(sub_expls))
         IN  << Head(sub_expls)[1] \cup rest[1] >>

\* for combo in product(*sub_expls): merged = set().union(*combo), in the
\* order of itertools.product (the last list runs fastest)
RECURSIVE merged_combos(_)
merged_combos(sub_expls) ==
    IF sub_expls = <<>> THEN << {} >>
    ELSE LET rest == merged_combos(Tail(sub_expls))
         IN  Flatten([i \in 1..Len(Head(sub_expls)) |->
                 [j \in 1..Len(rest) |-> Head(sub_expls)[i] \cup rest[j]]])

\* no pruning at all
minimal_keeps_all(explanations) == explanations

\* lines 56-61: keep e unless some entry of explanations is a strict subset
minimal(explanations) ==
    LET IsMinimal(e) == ~\E m \in DOMAIN explanations :
                            /\ explanations[m] \subseteq e
                            /\ explanations[m] # e
    IN  SelectSeq(explanations, IsMinimal)

RECURSIVE abduce(_, _, _, _)

\* lines 38-54: the candidate list, before pruning: the direct assumption,
\* then, clause by clause, the merged combinations of the body atoms'
\* explanations
explanations(g, k, abd, seen) ==
    LET direct == IF g \in abd THEN << {g} >> ELSE <<>>
        OfClause(clause) ==
            IF clause.head # g THEN <<>>
            ELSE LET sub_expls == [i \in 1..Len(clause.body) |->
                                      abduce(clause.body[i], k, abd, seen)]
                 IN  IF \E i \in DOMAIN sub_expls : Len(sub_expls[i]) = 0
                     THEN <<>>
                     ELSE merged_combos(sub_expls)
    IN  direct \o Flatten([n \in 1..Len(k) |-> OfClause(k[n])])

\* abduce(goal, kb, abducibles, seen); seen=None is the empty set
abduce(g, k, abd, seen) ==
    IF g \in seen THEN <<>>
    ELSE minimal(explanations(g, k, abd, seen \cup {g}))

\* float('inf') and the finite totals; finite costs are naturals here, so
\* the rounding of float sums is outside the model
Inf == [inf |-> TRUE, val |-> 0]
Fin(n) == [inf |-> FALSE, val |-> n]
Plus(x, y) == IF x.inf \/ y.inf THEN Inf ELSE Fin(x.val + y.val)
LessEq(x, y) == y.inf \/ (~x.inf /\ x.val <= y.val)

\* cost.get(a, float('inf'))
cost_get(c, a) == IF a \in DOMAIN c THEN Fin(c[a]) ELSE Inf

\* total = sum(cost.get(a, float('inf')) for a in expl)
RECURSIVE total(_, _)
total(c, expl) ==
    IF expl = {} THEN Fin(0)
    ELSE LET a == CHOOSE x \in expl : TRUE
         IN  Plus(cost_get(c, a), total(c, expl \ {a}))

\* abduce_min_cost with a missing cost counted as 0
min_cost_missing_is_free(g, k, abd, c) ==
    LET expls == abduce(g, k, abd, {})
        Score(e) == total([a \in abd |-> IF a \in DOMAIN c THEN c[a] ELSE 0], e)
    IN  IF expls = <<>> THEN <<>>
        ELSE LET min_cost == CHOOSE m \in {Score(e) : e \in Range(expls)} :
                                 \A e \in Range(expls) : LessEq(m, Score(e))
             IN  SelectSeq(expls, LAMBDA e : Score(e) = min_cost)

\* abduce_min_cost(goal, kb, abducibles, cost), lines 75-86
abduce_min_cost(g, k, abd, c) ==
    LET expls == abduce(g, k, abd, {})
    IN  IF expls = <<>> THEN <<>>
        ELSE LET min_cost == CHOOSE m \in {total(c, e) : e \in Range(expls)} :
                                 \A e \in Range(expls) : LessEq(m, total(c, e))
             IN  SelectSeq(expls, LAMBDA e : total(c, e) = min_cost)

----------------------------------------------------------------------------
(* Specification of the abduction engine: the caller builds a list of Horn *)
(* clauses, then calls abduce or abduce_min_cost on it                     *)

InitAbduce ==
    /\ horn_kb = <<>>
    /\ goal = "" /\ abducibles = {} /\ cost = <<>>
    /\ all_expls = <<>> /\ best = <<>>
    /\ apc = "build"
    /\ stack = <<>>
    /\ IdleResolve
    /\ IdleEntail
    /\ IdleLearn

Bodies(n) == UNION {[1..m -> HornAtoms] : m \in 0..n}

\* the caller appends HornClause(head, body) to the list
NewClause ==
    /\ apc = "build"
    /\ KbSize(horn_kb) < MaxKbSize
    /\ \E h \in HornAtoms :
       \E b \in Bodies(MaxKbSize - KbSize(horn_kb) - 1) :
           horn_kb' = Append(horn_kb, HornClause(h, b))
    /\ UNCHANGED <<goal, abducibles, cost, all_expls, best, apc, stack,
                   resolveVars, entailVars, learnVars>>

\* a top-level call abduce(goal, kb, abducibles)
Abduce ==
    /\ apc = "build"
    /\ \E g \in HornAtoms, abd \in SUBSET HornAtoms :
           /\ goal' = g
           /\ abducibles' = abd
           /\ all_expls' = abduce(g, horn_kb, abd, {})
    /\ apc' = "abduced"
    /\ UNCHANGED <<horn_kb, cost, best, stack, resolveVars, entailVars,
                   learnVars>>

\* the cost maps: a cost for some of the abducibles (the code looks up only
\* atoms of explanations, which are abducibles)
CostMaps(abd) == UNION {[d -> 0..MaxCost] : d \in SUBSET abd}

\* a top-level call abduce_min_cost(goal, kb, abducibles, cost)
AbduceMinCost ==
    /\ apc = "build"
    /\ \E g \in HornAtoms, abd \in SUBSET HornAtoms :
       \E c \in CostMaps(abd) :
           /\ goal' = g
           /\ abducibles' = abd
           /\ cost' = c
           /\ all_expls' = abduce(g, horn_kb, abd, {})
           /\ best' = abduce_min_cost(g, horn_kb, abd, c)
    /\ apc' = "costed"
    /\ UNCHANGED <<horn_kb, stack, resolveVars, entailVars, learnVars>>

NextAbduce == NewClause \/ Abduce \/ AbduceMinCost

SpecAbduce == InitAbduce /\ [][NextAbduce]_vars

----------------------------------------------------------------------------
(* Horn semantics, for the abduction contract *)

\* one step of forward chaining from the facts F
Fire(k, F) == F \cup {k[n].head : n \in {m \in DOMAIN k :
                                      Range(k[m].body) \subseteq F}}

\* the atoms derivable from the facts F
RECURSIVE Closure(_, _)
Closure(k, F) == IF Fire(k, F) = F THEN F ELSE Closure(k, Fire(k, F))

\* E, taken as facts together with k, derives g
Explains(E, k, g) == g \in Closure(k, E)

\* the inclusion-minimal explanations of g
MinimalExplanations(g, k, abd) ==
    {E \in SUBSET abd :
        /\ Explains(E, k, g)
        /\ \A E2 \in SUBSET E : E2 # E => ~Explains(E2, k, g)}

\* two clauses of k depend on each other's heads
Cyclic(k) ==
    \E n \in DOMAIN k, m \in DOMAIN k :
        /\ k[n].head \in Range(k[m].body)
        /\ k[m].head \in Range(k[n].body)

called == apc \in {"abduced", "costed"}

\* the least total cost among the explanations abduce returned
LeastTotal ==
    CHOOSE m \in {total(cost, e) : e \in Range(all_expls)} :
        \A e \in Range(all_expls) : LessEq(m, total(cost, e))

----------------------------------------------------------------------------
(* Claims about the abduction engine *)

\* C2: the explanations returned by the top-level call abduce(goal, kb,
\* abducibles) are, as a set of contents, exactly the inclusion-minimal
\* explanations: the subsets E of abducibles that derive goal by forward
\* chaining and have no strict subset deriving goal.
AbduceExactlyMinimal ==
    called => Range(all_expls) = MinimalExplanations(goal, horn_kb, abducibles)

\* abduce has returned two explanations for a goal on a cycle of rules
TwoExplanationsOnCycle ==
    /\ apc = "abduced"
    /\ Cyclic(horn_kb)
    /\ \E c \in Range(horn_kb) : c.head = goal /\ c.body # <<>>
    /\ Cardinality(Range(all_expls)) >= 2

\* C3: abduce_min_cost returns exactly the explanations of abduce whose total
\* cost (a missing cost being infinite) is the least over the explanations of
\* abduce, ties included; the result is empty only when abduce returns none.
MinCostExactlyCheapest ==
    apc = "costed" =>
        /\ Range(best) = {e \in Range(all_expls) : total(cost, e) = LeastTotal}
        /\ \A e \in Range(best) : \A e2 \in Range(all_expls) :
               LessEq(total(cost, e), total(cost, e2))
        /\ (best = <<>>) <=> (all_expls = <<>>)

\* abduce_min_cost has returned two explanations of equal finite cost and
\* dropped a third, which holds an atom with no cost
TiedWinners ==
    /\ apc = "costed"
    /\ Cardinality(Range(best)) >= 2
    /\ \E e \in Range(all_expls) \ Range(best) :
           \E a \in e : a \notin DOMAIN cost

\* C5: no explanation returned by a call of abduce is a strict subset of
\* another explanation returned by the same call.
AbductionMinimality ==
    called =>
        \A i \in DOMAIN all_expls, j \in DOMAIN all_expls :
            all_expls[i] # all_expls[j] =>
                ~(all_expls[i] \subseteq all_expls[j])

\* the pruning dropped a candidate that a clause met later in the list made
\* non-minimal
PrunedByLaterClause ==
    /\ apc = "abduced"
    /\ all_expls # <<>>
    /\ LET cands == explanations(goal, horn_kb, abducibles, {goal})
       IN  \E n \in DOMAIN cands : \E m \in DOMAIN cands :
               /\ n < m
               /\ cands[m] \subseteq cands[n]
               /\ cands[m] # cands[n]

\* C8: no two entries of the collection returned by abduce have equal
\* content.
AbduceNoDuplicates ==
    called =>
        \A i \in DOMAIN all_expls, j \in DOMAIN all_expls :
            i # j => all_expls[i] # all_expls[j]

----------------------------------------------------------------------------
(* PropInduction.py : FOIL gain and learn_rules *)

\* An example is a (predicate, constant) pair; a body literal is a
\* (predicate, "X") pair; a rule is a (head predicate, "X", body) triple.
Heads  == {"Fly", "Swim"}
Preds  == {"Bird", "Mammal"}
Consts == {"a", "b", "c"}
Examples == Heads \X Consts

\* b to the power e
RECURSIVE Power(_, _)
Power(b, e) == IF e = 0 THEN 1 ELSE b * Power(b, e - 1)

\* foil_gain raises ValueError: past the guard of line 24, p1 = 0 makes
\* p1 / (p1 + n1) = 0.0, and math.log2(0.0) is a math domain error
foil_gain_raises(p, n, p1, n1) ==
    /\ ~(p = 0 \/ (p1 + n1) = 0)
    /\ p1 = 0

\* foil_gain(p, n, p1, n1), where it returns.  The gain
\*   g = p1 * (log2(p1 / (p1 + n1)) - log2(p / (p + n)))
\* is kept as the exact fraction 2^g = <<numerator, denominator>>, which
\* orders as g does; 0.0 is <<1, 1>>.
foil_gain(p, n, p1, n1) ==
    IF p = 0 \/ (p1 + n1) = 0 THEN <<1, 1>>
    ELSE <<Power(p1 * (p + n), p1), Power((p1 + n1) * p, p1)>>

\* gain > best_gain
Greater(g1, g2) == g1[1] * g2[2] > g2[1] * g1[2]

\* [e for e in cover if (pred, e[1]) in background]
Narrow(cover, pred) ==
    SelectSeq(cover, LAMBDA e : <<pred, e[2]>> \in background)

\* predicates - {lit[0] for lit in body}
Candidates == predicates \ {body[i][1] : i \in DOMAIN body}

\* the gain line 66 computes for pred
GainOf(pred) == foil_gain(Len(pos_cover), Len(neg_cover),
                          Len(Narrow(pos_cover, pred)),
                          Len(Narrow(neg_cover, pred)))

\* line 66 raises for some candidate of this round
ScoringRaises ==
    \E pred \in Candidates :
        foil_gain_raises(Len(pos_cover), Len(neg_cover),
                         Len(Narrow(pos_cover, pred)),
                         Len(Narrow(neg_cover, pred)))

\* the candidates whose gain exceeds the initial best_gain = 0.0
Improving == {pred \in Candidates : Greater(GainOf(pred), <<1, 1>>)}

\* The candidates the for loop of lines 62-71 can end with as best_literal:
\* the first one met among those of greatest gain.  The loop runs over a
\* Python set of str, whose iteration order is not fixed (it follows the
\* strings' hashes, which are salted per process), so any of them can be
\* the first.
BestLiterals ==
    {pred \in Improving : \A o \in Improving : ~Greater(GainOf(o), GainOf(pred))}

\* e[0] == head_pred and all((pred, e[1]) in background for pred, _ in body)
Covered(e) ==
    /\ e[1] = head_pred
    /\ \A i \in DOMAIN body : <<body[i][1], e[2]>> \in background

----------------------------------------------------------------------------
(* Specification of learn_rules *)

ExampleLists(n) == UNION {[1..m -> Examples] : m \in 0..n}

\* lines 39-41: rules = [], pos_examples = pos[:], neg_examples = neg[:]
InitLearn ==
    /\ pos \in ExampleLists(MaxExamples)
    /\ neg \in ExampleLists(MaxExamples - Len(pos))
    /\ background \in SUBSET (Preds \X Consts)
    /\ predicates \in SUBSET Preds
    /\ rules = <<>>
    /\ pos_examples = pos
    /\ head_pred = "" /\ body = <<>>
    /\ pos_cover = <<>> /\ neg_cover = <<>>
    /\ fpc = "outer"
    /\ runs = 1
    /\ first_rules = <<>>
    /\ IdleResolve
    /\ IdleEntail
    /\ IdleAbduce

notLearn == <<resolveVars, entailVars, abduceVars>>

\* lines 43-51: a new rule for the head of the first remaining positive
StartRule ==
    /\ fpc = "outer"
    /\ pos_examples # <<>>
    /\ head_pred' = pos_examples[1][1]
    /\ body' = <<>>
    /\ pos_cover' = SelectSeq(pos_examples, LAMBDA e : e[1] = pos_examples[1][1])
    /\ neg_cover' = SelectSeq(neg, LAMBDA e : e[1] = pos_examples[1][1])
    /\ fpc' = "inner"
    /\ UNCHANGED <<pos, neg, background, predicates, rules, pos_examples,
                   runs, first_rules, notLearn>>

\* lines 54-66: scoring the candidates, foil_gain raises ValueError, which
\* nothing catches
ScoreRaises ==
    /\ fpc = "inner"
    /\ neg_cover # <<>>
    /\ ScoringRaises
    /\ fpc' = "error"
    /\ UNCHANGED <<pos, neg, background, predicates, rules, pos_examples,
                   head_pred, body, pos_cover, neg_cover, runs, first_rules,
                   notLearn>>

\* lines 54-80: one round of the inner loop that adds the best literal
AddLiteral ==
    /\ fpc = "inner"
    /\ neg_cover # <<>>
    /\ ~ScoringRaises
    /\ \E pred \in BestLiterals :
           /\ body' = Append(body, <<pred, "X">>)
           /\ pos_cover' = Narrow(pos_cover, pred)
           /\ neg_cover' = Narrow(neg_cover, pred)
    /\ UNCHANGED <<pos, neg, background, predicates, rules, pos_examples,
                   head_pred, fpc, runs, first_rules, notLearn>>

\* lines 54, 74-75, 83-90: the inner loop ends (no negative is covered, or
\* no literal improves things); the rule is recorded and the positives it
\* covers are removed
RecordRule ==
    /\ fpc = "inner"
    /\ \/ neg_cover = <<>>
       \/ ~ScoringRaises /\ Improving = {}
    /\ rules' = Append(rules, <<head_pred, "X", body>>)
    /\ pos_examples' = SelectSeq(pos_examples, LAMBDA e : ~Covered(e))
    /\ fpc' = "outer"
    /\ UNCHANGED <<pos, neg, background, predicates, head_pred, body,
                   pos_cover, neg_cover, runs, first_rules, notLearn>>

\* lines 43, 92: no positive is left: return rules
ReturnRules ==
    /\ fpc = "outer"
    /\ pos_examples = <<>>
    /\ fpc' = "done"
    /\ UNCHANGED <<pos, neg, background, predicates, rules, pos_examples,
                   head_pred, body, pos_cover, neg_cover, runs, first_rules,
                   notLearn>>

\* the caller runs learn_rules once more on the unchanged inputs
LearnAgain ==
    /\ fpc = "done"
    /\ runs = 1
    /\ first_rules' = rules
    /\ runs' = 2
    /\ rules' = <<>>
    /\ pos_examples' = pos
    /\ fpc' = "outer"
    /\ UNCHANGED <<pos, neg, background, predicates, head_pred, body,
                   pos_cover, neg_cover, notLearn>>

NextLearn == StartRule \/ ScoreRaises \/ AddLiteral \/ RecordRule \/ ReturnRules

SpecLearn == InitLearn /\ [][NextLearn]_vars

NextLearnAgain == NextLearn \/ LearnAgain

SpecLearnAgain == InitLearn /\ [][NextLearnAgain]_vars

----------------------------------------------------------------------------
(* Claims about the rule learner *)

\* the rule covers the example: same head, variable X, and every body
\* literal (pred, X) has (pred, constant) in background
RuleCovers(rule, e) ==
    /\ rule[1] = e[1]
    /\ rule[2] = "X"
    /\ \A i \in DOMAIN rule[3] :
           /\ rule[3][i][2] = "X"
           /\ <<rule[3][i][1], e[2]>> \in background

\* what a call that returns hands back covers every positive example, and
\* is empty for an empty pos
ReturnedRulesCover ==
    fpc = "done" =>
        /\ \A i \in DOMAIN pos : \E j \in DOMAIN rules : RuleCovers(rules[j], pos[i])
        /\ pos = <<>> => rules = <<>>

\* C4: for every input learn_rules returns a rule sequence, and the rules
\* returned together cover all positive examples: every (h, c) of pos is
\* covered by some returned rule with head h; an empty pos yields an empty
\* rule list.
LearnRulesCoversPositives ==
    /\ fpc \in {"outer", "inner", "done"}
    /\ ReturnedRulesCover

\* C7: running learn_rules again on unchanged inputs yields an identical
\* rule sequence; among candidates of equal greatest gain the chosen literal
\* does not vary between runs.
LearnRulesIdempotent ==
    (fpc = "done" /\ runs = 2) => rules = first_rules

\* C9: the guard of foil_gain prevents every logarithm of zero: no call
\* foil_gain(p, n, p1, n1) that learn_rules makes raises, candidates that
\* keep no positive but some negative included, so learn_rules never fails
\* while scoring a candidate.
FoilGainNeverRaises ==
    /\ fpc # "error"
    /\ (fpc = "inner" /\ neg_cover # <<>>) => ~ScoringRaises

----------------------------------------------------------------------------
(* abduce, call by call: the frames of the recursion of lines 23-61.  A    *)
(* frame holds the locals of one call: goal, seen, the clause the for loop *)
(* of line 44 is at, the results of the recursive calls of line 47 made so *)
(* far for that clause, and the explanations list.                         *)

\* the frame of a call abduce(g, kb, abducibles, seen) at its first line
Frame(g, seen) ==
    [goal |-> g, seen |-> seen, pc |-> "enter", clause |-> 1,
     sub_expls |-> <<>>, explanations |-> <<>>]

top == stack[Len(stack)]

\* the top frame, with the fields of upd changed
WithTop(upd) ==
    [stack EXCEPT ![Len(stack)] =
        [f \in DOMAIN top |-> IF f \in DOMAIN upd THEN upd[f] ELSE top[f]]]

\* the call of the top frame returns result: to the list comprehension of
\* the caller's line 47, or to the caller of the top-level call
Return(result) ==
    IF Len(stack) = 1
    THEN /\ stack' = <<>>
         /\ all_expls' = result
         /\ apc' = "abduced"
    ELSE /\ stack' = [SubSeq(stack, 1, Len(stack) - 1)
                         EXCEPT ![Len(stack) - 1].sub_expls = Append(@, result)]
         /\ UNCHANGED <<all_expls, apc>>

notFrames == <<horn_kb, goal, abducibles, cost, best, resolveVars,
               entailVars, learnVars>>

\* a top-level call abduce(goal, kb, abducibles): seen is None, so the call
\* starts from a fresh empty set (lines 32-33)
CallAbduce ==
    /\ apc = "build"
    /\ \E g \in HornAtoms, abd \in SUBSET HornAtoms :
           /\ goal' = g
           /\ abducibles' = abd
           /\ stack' = <<Frame(g, {})>>
    /\ apc' = "running"
    /\ UNCHANGED <<horn_kb, cost, all_expls, best, resolveVars, entailVars,
                   learnVars>>

\* lines 34-35: the goal is being expanded already: return []
GuardReturn ==
    /\ apc = "running"
    /\ top.pc = "enter"
    /\ top.goal \in top.seen
    /\ Return(<<>>)
    /\ UNCHANGED notFrames

\* seen.add(goal) on the one set every frame of the chain shares
ExpandSharedSeen ==
    /\ apc = "running"
    /\ top.pc = "enter"
    /\ top.goal \notin top.seen
    /\ stack' = [i \in DOMAIN stack |->
                    IF i < Len(stack)
                    THEN [stack[i] EXCEPT !.seen = @ \cup {top.goal}]
                    ELSE [top EXCEPT
                             !.seen = @ \cup {top.goal},
                             !.pc = "clauses",
                             !.explanations =
                                 IF top.goal \in abducibles
                                 THEN << {top.goal} >> ELSE <<>>]]
    /\ UNCHANGED <<all_expls, apc, notFrames>>

\* lines 36-41: seen = seen | {goal}, a new set bound to this call's local;
\* explanations starts with the direct assumption
Expand ==
    /\ apc = "running"
    /\ top.pc = "enter"
    /\ top.goal \notin top.seen
    /\ stack' = WithTop([seen |-> top.seen \cup {top.goal},
                         pc |-> "clauses",
                         explanations |-> IF top.goal \in abducibles
                                          THEN << {top.goal} >> ELSE <<>>])
    /\ UNCHANGED <<all_expls, apc, notFrames>>

\* lines 44-45: a clause with another head
SkipClause ==
    /\ apc = "running"
    /\ top.pc = "clauses"
    /\ top.clause <= Len(horn_kb)
    /\ horn_kb[top.clause].head # top.goal
    /\ stack' = WithTop([clause |-> top.clause + 1])
    /\ UNCHANGED <<all_expls, apc, notFrames>>

\* line 47: the next recursive call abduce(b, kb, abducibles, seen) of the
\* list comprehension over clause.body
CallBody ==
    /\ apc = "running"
    /\ top.pc = "clauses"
    /\ top.clause <= Len(horn_kb)
    /\ horn_kb[top.clause].head = top.goal
    /\ Len(top.sub_expls) < Len(horn_kb[top.clause].body)
    /\ stack' = Append(stack,
                       Frame(horn_kb[top.clause].body[Len(top.sub_expls) + 1],
                             top.seen))
    /\ UNCHANGED <<all_expls, apc, notFrames>>

\* lines 49-54: every body atom has been abduced: skip the clause if one of
\* them has no explanation, else append the merged combinations
CombineClause ==
    /\ apc = "running"
    /\ top.pc = "clauses"
    /\ top.clause <= Len(horn_kb)
    /\ horn_kb[top.clause].head = top.goal
    /\ Len(top.sub_expls) = Len(horn_kb[top.clause].body)
    /\ stack' = WithTop(
           [clause |-> top.clause + 1,
            sub_expls |-> <<>>,
            explanations |->
                IF \E i \in DOMAIN top.sub_expls : Len(top.sub_expls[i]) = 0
                THEN top.explanations
                ELSE top.explanations \o merged_combos(top.sub_expls)])
    /\ UNCHANGED <<all_expls, apc, notFrames>>

\* lines 56-61: the for loop is over: return the minimal explanations
ReturnMinimal ==
    /\ apc = "running"
    /\ top.pc = "clauses"
    /\ top.clause > Len(horn_kb)
    /\ Return(minimal(top.explanations))
    /\ UNCHANGED notFrames

\* the steps of a call of abduce in progress
AbduceStep ==
    GuardReturn \/ Expand \/ SkipClause \/ CallBody \/ CombineClause
    \/ ReturnMinimal

NextAbduceCalls == NewClause \/ CallAbduce \/ AbduceStep

SpecAbduceCalls == InitAbduce /\ [][NextAbduceCalls]_vars

\* a call in progress keeps running; the caller need not call at all
SpecAbduceCallsFair == SpecAbduceCalls /\ WF_vars(AbduceStep)

----------------------------------------------------------------------------
(* Claims about the recursion of abduce *)

\* the distinct atoms of a list of Horn clauses
AtomsOf(k) == {k[n].head : n \in DOMAIN k}
              \cup UNION {Range(k[n].body) : n \in DOMAIN k}

\* the goals of the calls that frame i is nested in
GoalsAbove(i) == {stack[j].goal : j \in 1..(i - 1)}

\* the guard of every frame is the set of goals of its own call chain: the
\* callers' goals, and its own goal once line 36 has run; it holds nothing
\* of a call that has returned
GuardIsCallChain ==
    \A i \in DOMAIN stack :
        stack[i].seen = GoalsAbove(i) \cup
                        (IF stack[i].pc = "enter" THEN {} ELSE {stack[i].goal})

\* the guard strictly grows from each call to the calls it makes
GuardGrows ==
    \A i \in DOMAIN stack :
        i > 1 => /\ GoalsAbove(i - 1) \subseteq GoalsAbove(i)
                 /\ GoalsAbove(i - 1) # GoalsAbove(i)
                 /\ stack[i - 1].seen \subseteq stack[i].seen

\* a call whose goal is in its guard returns no explanations
GuardedGoalReturnsNone ==
    (/\ apc = "running"
     /\ top.pc = "enter"
     /\ top.goal \in top.seen)
    => /\ Len(stack') = Len(stack) - 1
       /\ IF Len(stack) = 1 THEN all_expls' = <<>>
          ELSE stack'[Len(stack) - 1].sub_expls =
                   Append(stack[Len(stack) - 1].sub_expls, <<>>)

\* C11: abduce terminates on every finite Horn kb, cyclic ones included: the
\* guard of goals being expanded strictly grows along each call chain and
\* belongs to that chain alone, a goal already in the guard returns no
\* explanations, the recursion is never deeper than the number of distinct
\* atoms of kb plus one, and every call returns.
AbduceTerminates ==
    /\ []GuardIsCallChain
    /\ []GuardGrows
    /\ [][GuardedGoalReturnsNone]_vars
    /\ [](Len(stack) <= Cardinality(AtomsOf(horn_kb)) + 1)
    /\ [](apc = "abduced" => all_expls = abduce(goal, horn_kb, abducibles, {}))
    /\ (apc = "running" ~> apc = "abduced")

\* on a cycle of rules (a :- b, b :- a) the recursion has come back to the
\* goal it started from, at the greatest depth the atoms of kb allow
CycleReachedGuard ==
    /\ apc = "running"
    /\ Len(stack) = Cardinality(AtomsOf(horn_kb)) + 1
    /\ Len(stack) >= 3
    /\ top.pc = "enter"
    /\ top.goal = stack[1].goal

============================================================================
